---- MODULE Spec2Model ----
(***************************************************************************)
(* LinkedIn browser MCP server: the credential vault (save_cookies,        *)
(* load_cookies), the scoped BrowserSession, do_login, the scroll-driven   *)
(* collectors of do_browse_feed and do_search_posts, the single-shot       *)
(* operations, call_tool's error handler, and the debug_selectors script,  *)
(* which reads the same credential store.                                  *)
(*                                                                         *)
(* One tool call runs at a time; pc is its position between awaits.  The   *)
(* platform (what a navigation redirects to, which cookies it sets, what   *)
(* the DOM renders after each scroll) is the nondeterministic environment. *)
(* SpecFaults adds calls that raise and a store damaged between calls;     *)
(* SpecVault runs save_cookies and load_cookies statement by statement in  *)
(* two processes that share the sessions directory.                        *)
(***************************************************************************)
EXTENDS Integers, Sequences, FiniteSets, TLC

VARIABLES
    cookie_file,     \* sessions/linkedin_cookies.json: <<>> or <<encrypted blob>>
    key_file,        \* sessions/encryption.key: <<>> or <<key>>
    now,             \* time.time(), in seconds
    ticks,           \* number of clock advances so far
    pc,              \* position of the running tool call
    name,            \* tool name given to call_tool
    count,           \* arguments.get("count", 5)
    query,           \* arguments["query"]
    target,          \* profile_url / post_url
    browser,         \* "none", "open" or "closed"
    playwright,      \* the automation driver: "none", "running" or "stopped"
    jar,             \* cookies of the browsing context
    url,             \* page.url
    posts,           \* items collected so far
    scroll_attempt,  \* loop index of the collect loop
    result,          \* envelope returned by the operation
    loaded,          \* return value of load_cookies in this call
    load_age,        \* age of the bundle load_cookies decrypted, -1 if none
    redirected,      \* the platform redirected the navigation to the login page
    extracts,        \* extraction calls made in this call
    scrolls,         \* scroll steps issued in this call
    saves,           \* save_cookies calls completed in this call
    seen,            \* keys in the order in which the page first showed them
    prev_keys,       \* keys of the previous batch
    chained,         \* every batch so far repeated its predecessor's keys, adding <= 3
    reached_at,      \* extraction at which the target was first met, 0 if not yet
    followed,        \* leading extractions that returned the Scenario batches
    exc,             \* str(e) of the exception raised in this call, "" if none
    last_load,       \* <<>>, or if the latest load_cookies applied a bundle and the
                     \* bundle file was not written since: <<its cookies, ticks at the
                     \* load, whether the load before it had applied the bundle too>>
    calls,           \* tool calls dispatched concurrently in one event loop: position,
                     \* the BrowserSession each holds (0 if none) and its cookies
    contexts,        \* every browser + context launched so far: owner, users, state
    peers            \* other processes on the same sessions directory, each inside
                     \* save_cookies or load_cookies: position and locals

vars == <<cookie_file, key_file, now, ticks, pc, name, count, query, target,
          browser, jar, url, posts, scroll_attempt, result, loaded, load_age,
          redirected, extracts, scrolls, saves, seen, prev_keys,
          chained, reached_at, followed, playwright, exc, last_load, peers,
          calls, contexts>>

vault == <<cookie_file, key_file>>
dispatched == <<calls, contexts>>
\* the other processes and the other calls of this process
others == <<peers, calls, contexts>>
\* what a step of a call that neither touches the store nor raises leaves alone
steady == <<cookie_file, key_file, last_load, exc, now, ticks, peers, calls, contexts>>
call_state == <<name, count, query, target>>
\* the tool call of this process, left alone by the steps of the other processes
tool_call == <<pc, name, count, query, target, browser, playwright, jar, url,
               redirected, posts, scroll_attempt, result, loaded, load_age, extracts,
               scrolls, saves, seen, prev_keys, chained, reached_at, followed, exc,
               last_load>>
page_state == <<browser, playwright, jar, url, redirected>>
collect_state == <<posts, scroll_attempt>>
history == <<extracts, scrolls, seen, prev_keys, chained, reached_at, followed>>

----------------------------------------------------------------------------
\* Program constants

TTL == 86400

MAX_ATTEMPTS == 10

EXTRA_ATTEMPTS == 2

DEFAULT_COUNT == 5

----------------------------------------------------------------------------
\* Bounds of the model

MaxCount == 9

NegCounts == 3

MaxBatch == 4

MaxTicks == 3

MaxSessions == 3

----------------------------------------------------------------------------
\* Helpers

Min(a, b) == IF a <= b THEN a ELSE b

Max(a, b) == IF a >= b THEN a ELSE b

Range(s) == {s[i] : i \in 1..Len(s)}

\* Python's `needle in s` on strings, with strings as sequences of tokens
Contains(needle, s) ==
    \E i \in 0..(Len(s) - Len(needle)) :
        SubSeq(s, i + 1, i + Len(needle)) = needle

\* Python's s[:n]
Slice(s, n) ==
    IF n >= 0 THEN SubSeq(s, 1, Min(n, Len(s)))
    ELSE SubSeq(s, 1, Max(Len(s) + n, 0))

Urns(items) == [i \in 1..Len(items) |-> items[i].urn]

----------------------------------------------------------------------------
\* Tools and their arguments

Collectors == {"browse_linkedin_feed", "search_linkedin_posts"}

SingleShot == {"search_linkedin_profiles", "view_linkedin_profile",
               "interact_with_linkedin_post"}

Tools == Collectors \cup SingleShot

\* the six tools of list_tools
Operations == Tools \cup {"login_linkedin"}

Counts == (0 - NegCounts)..MaxCount

SessionCounts == {1, 2}

Queries == {<<"data", " ", "engineer">>, <<"login">>}

ProfileUrls == {<<"https://www.", "linkedin.com", "/in/", "alice">>,
                <<"https://", "example.com", "/in/", "alice">>}

PostUrls == {<<"https://www.", "linkedin.com", "/feed/update/", "urn:li:activity:1">>,
             <<"https://www.", "linkedin.com", "/posts/", "alice_1">>,
             <<"https://www.", "linkedin.com", "/in/", "alice">>}

FeedUrl == <<"https://www.", "linkedin.com", "/", "feed", "/">>

LoginUrl == <<"https://www.", "linkedin.com", "/", "login">>

\* urllib.parse.quote on the tokens of a query
Quote(q) == [i \in 1..Len(q) |-> IF q[i] = " " THEN "%20" ELSE q[i]]

PeopleSearchUrl(q) ==
    <<"https://www.", "linkedin.com", "/search/results/people/?keywords=">> \o Quote(q)

ContentSearchUrl(q) ==
    <<"https://www.", "linkedin.com", "/search/results/content/?keywords=">> \o Quote(q)

RequestedUrl ==
    CASE name = "browse_linkedin_feed" -> FeedUrl
      [] name = "search_linkedin_profiles" -> PeopleSearchUrl(query)
      [] name = "search_linkedin_posts" -> ContentSearchUrl(query)
      [] OTHER -> target

ValidProfileUrl(profile_url) == Contains(<<"linkedin.com", "/in/">>, profile_url)

ValidPostUrl(post_url) ==
    \/ Contains(<<"linkedin.com", "/posts/">>, post_url)
    \/ Contains(<<"linkedin.com", "/feed/update/">>, post_url)

----------------------------------------------------------------------------
\* The page: what one extraction can return

Feed == <<"a", "b", "c", "d">>

Item(k, r) == [urn |-> k, reactions |-> r]

\* the containers of a contiguous stretch of the feed, in feed order
Windows ==
    {[i \in 1..n |-> Item(Feed[lo + i - 1], 0)] :
        <<lo, n>> \in {w \in (1..Len(Feed)) \X (0..MaxBatch) : w[1] + w[2] - 1 <= Len(Feed)}}

\* re-rendered containers: changed counters, other orders, the same urn twice
Rerendered ==
    {<<Item("b", 0), Item("a", 1)>>,
     <<Item("a", 1), Item("a", 0)>>,
     <<Item("c", 0), Item("a", 0), Item("c", 1)>>}

BatchSet == Windows \cup Rerendered

SessionBatches == {<<>>, <<Item("a", 0)>>, <<Item("a", 1), Item("b", 0)>>}

\* the successive batches of the browse_feed scenario
Scenario == << <<"a", "b", "c">>, <<"b", "c", "d", "e">>, <<"d", "e", "f", "g">> >>

ScenarioBatch(n) == [i \in 1..Len(Scenario[n]) |-> Item(Scenario[n][i], 0)]

CookieJars == {<<"li_at=1">>}

Keys == {"k1", "k2"}

\* the processes that share the sessions directory, and the cookies each saves
Procs == {"p1", "p2"}

PeerJar == [p1 |-> <<"li_at=1">>, p2 |-> <<"li_at=2">>]

\* the tool calls the host dispatches concurrently, and the cookies the
\* platform hands each of them
Invocations == {"c1", "c2"}

CallJar == [c1 |-> <<"li_at=1">>, c2 |-> <<"li_at=2">>]

\* a slot with no tool call running
NotCalled == [at |-> "idle", session |-> 0, cookies |-> <<>>]

\* a process outside save_cookies and load_cookies
Resting == [at |-> "idle", key |-> "", encrypted |-> <<>>, cookie_data |-> <<>>,
            out |-> "none"]

----------------------------------------------------------------------------
\* Envelopes

NoResult == [status |-> "none", message |-> "", items |-> <<>>, total_found |-> 0]

ErrorEnvelope(msg) == [status |-> "error", message |-> msg, items |-> <<>>, total_found |-> 0]

SuccessEnvelope(items, n) == [status |-> "success", message |-> "", items |-> items, total_found |-> n]

\* the success envelope of do_login
MessageEnvelope(msg) == [status |-> "success", message |-> msg, items |-> <<>>, total_found |-> 0]

----------------------------------------------------------------------------
\* Credential vault

\* a Fernet token: the key under which it verifies and the plaintext it carries
Encrypt(key, cookie_data) == [key |-> key, plain |-> cookie_data]

Decryptable(key, encrypted) == encrypted.key = key

\* what open(path, 'wb') leaves when the write after it does not complete: a
\* key file that is no Fernet key, a bundle file that verifies under no key
TornKey == "torn"

Torn == Encrypt("", [raw |-> ""])

\* a token that verifies but does not carry the JSON object of save_cookies
NotJson == [raw |-> "not json"]

\* Fernet(key) accepts exactly the keys Fernet.generate_key() makes
ValidKey(key) == key \in Keys

\* json.loads(...) gives an object with a "timestamp" and "cookies"
Parsable(plain) == DOMAIN plain = {"timestamp", "cookies"}

\* the files hold a bundle that load_cookies can decrypt and parse
Loadable(cfile, kfile) ==
    /\ cfile # <<>> /\ kfile # <<>>
    /\ ValidKey(kfile[1])
    /\ Decryptable(kfile[1], cfile[1])
    /\ Parsable(cfile[1].plain)

\* save_cookies stamping the bundle with 0 instead of the time of the save
save_cookies_unstamped(new_key) ==
    LET key == IF key_file # <<>> THEN key_file[1] ELSE new_key
        cookie_data == [timestamp |-> 0, cookies |-> jar]
    IN  /\ ValidKey(key)
        /\ key_file' = <<key>>
        /\ cookie_file' = <<Encrypt(key, cookie_data)>>
        /\ saves' = saves + 1
        /\ last_load' = <<>>

\* save_cookies: read or create the key, encrypt {timestamp, cookies}, write the file
\* (the clock counts whole seconds, so int(time.time()) is `now`)
save_cookies(new_key) ==
    LET key == IF key_file # <<>> THEN key_file[1] ELSE new_key
        cookie_data == [timestamp |-> now, cookies |-> jar]
    IN  /\ ValidKey(key)
        /\ key_file' = <<key>>
        /\ cookie_file' = <<Encrypt(key, cookie_data)>>
        /\ saves' = saves + 1
        /\ last_load' = <<>>

\* load_cookies found nothing to apply
Absent ==
    /\ loaded' = FALSE /\ load_age' = -1 /\ jar' = <<>>
    /\ last_load' = <<>>
    /\ exc' = exc

\* load_cookies leaving an expired bundle on disk
load_cookies_keep ==
    IF ~Loadable(cookie_file, key_file)
    THEN Absent /\ UNCHANGED cookie_file
    ELSE LET cookie_data == cookie_file[1].plain
         IN  /\ load_age' = now - cookie_data.timestamp
             /\ UNCHANGED <<cookie_file, exc>>
             /\ IF now - cookie_data.timestamp > TTL
                THEN loaded' = FALSE /\ jar' = <<>> /\ last_load' = <<>>
                ELSE /\ jar' = cookie_data.cookies /\ loaded' = TRUE
                     /\ last_load' = <<cookie_data.cookies, ticks, last_load # <<>>>>

\* load_cookies with only the file reads inside its try
load_cookies_unguarded ==
    IF cookie_file = <<>> \/ key_file = <<>>
    THEN Absent /\ UNCHANGED cookie_file
    ELSE IF ~Loadable(cookie_file, key_file)
    THEN /\ loaded' = FALSE /\ load_age' = -1 /\ jar' = <<>>
         /\ last_load' = <<>>
         /\ exc' = "InvalidToken"
         /\ UNCHANGED cookie_file
    ELSE LET cookie_data == cookie_file[1].plain
         IN  /\ load_age' = now - cookie_data.timestamp
             /\ exc' = exc
             /\ IF now - cookie_data.timestamp > TTL
                THEN /\ cookie_file' = <<>>
                     /\ loaded' = FALSE /\ jar' = <<>>
                     /\ last_load' = <<>>
                ELSE /\ jar' = cookie_data.cookies
                     /\ loaded' = TRUE
                     /\ last_load' = <<cookie_data.cookies, ticks, last_load # <<>>>>
                     /\ UNCHANGED cookie_file

\* load_cookies consuming the bundle it applies
load_cookies_once ==
    IF ~Loadable(cookie_file, key_file)
    THEN Absent /\ UNCHANGED cookie_file
    ELSE LET cookie_data == cookie_file[1].plain
         IN  /\ load_age' = now - cookie_data.timestamp
             /\ exc' = exc
             /\ cookie_file' = <<>>
             /\ IF now - cookie_data.timestamp > TTL
                THEN /\ loaded' = FALSE /\ jar' = <<>>
                     /\ last_load' = <<>>
                ELSE /\ jar' = cookie_data.cookies
                     /\ loaded' = TRUE
                     /\ last_load' = <<cookie_data.cookies, ticks, last_load # <<>>>>

\* load_cookies of the server, into a fresh context: the existence test, then
\* everything else inside try/except Exception
load_cookies ==
    IF cookie_file = <<>> \/ key_file = <<>>
    THEN Absent /\ UNCHANGED cookie_file
    ELSE IF ~ValidKey(key_file[1])
    THEN Absent /\ UNCHANGED cookie_file
    ELSE IF ~Decryptable(key_file[1], cookie_file[1])
    THEN Absent /\ UNCHANGED cookie_file
    ELSE IF ~Parsable(cookie_file[1].plain)
    THEN Absent /\ UNCHANGED cookie_file
    ELSE LET cookie_data == cookie_file[1].plain
         IN  /\ load_age' = now - cookie_data.timestamp
             /\ exc' = exc
             /\ IF now - cookie_data.timestamp > TTL
                THEN /\ cookie_file' = <<>>
                     /\ loaded' = FALSE /\ jar' = <<>>
                     /\ last_load' = <<>>
                ELSE /\ jar' = cookie_data.cookies
                     /\ loaded' = TRUE
                     /\ last_load' = <<cookie_data.cookies, ticks, last_load # <<>>>>
                     /\ UNCHANGED cookie_file

\* load_cookies of debug_selectors.py
debug_load_cookies ==
    IF ~Loadable(cookie_file, key_file)
    THEN /\ loaded' = FALSE /\ load_age' = -1 /\ jar' = <<>>
    ELSE LET cookie_data == cookie_file[1].plain
         IN  /\ load_age' = now - cookie_data.timestamp
             /\ jar' = cookie_data.cookies
             /\ loaded' = TRUE

----------------------------------------------------------------------------
\* The collect loop of do_browse_feed and do_search_posts

\* the budget without its MAX_ATTEMPTS cap
BudgetUncapped(n) == n + EXTRA_ATTEMPTS

Budget(n) == Min(n + EXTRA_ATTEMPTS, MAX_ATTEMPTS)

\* the loop body without its membership test
AppendNewAll(have, new_posts) == have \o new_posts

\* the loop body inserting at the front
RECURSIVE AppendNewFront(_, _)
AppendNewFront(have, new_posts) ==
    IF new_posts = <<>> THEN have
    ELSE LET p == Head(new_posts)
         IN  AppendNewFront(IF \E i \in 1..Len(have) : have[i].urn = p.urn
                            THEN have
                            ELSE <<p>> \o have,
                            Tail(new_posts))

\* for p in new_posts: if not any(existing['urn'] == p['urn'] ...): posts.append(p)
RECURSIVE AppendNew(_, _)
AppendNew(have, new_posts) ==
    IF new_posts = <<>> THEN have
    ELSE LET p == Head(new_posts)
         IN  AppendNew(IF \E i \in 1..Len(have) : have[i].urn = p.urn
                       THEN have
                       ELSE Append(have, p),
                       Tail(new_posts))

\* the profile extraction of do_search_profiles: at most `n` links, one per url
RECURSIVE TakeProfiles(_, _, _)
TakeProfiles(profiles, links, n) ==
    IF links = <<>> THEN profiles
    ELSE LET link == Head(links)
         IN  TakeProfiles(IF \/ Len(profiles) >= n
                             \/ \E i \in 1..Len(profiles) : profiles[i].urn = link.urn
                          THEN profiles
                          ELSE Append(profiles, link),
                          Tail(links), n)

\* the keys of a batch that the page had not shown before, each once, in batch order
FirstShown(old, ks) ==
    LET F[i \in 0..Len(ks)] ==
            IF i = 0 THEN <<>>
            ELSE IF ks[i] \notin old /\ \A j \in 1..(i - 1) : ks[j] # ks[i]
                 THEN Append(F[i - 1], ks[i])
                 ELSE F[i - 1]
    IN  F[Len(ks)]

\* history of what the page showed, kept for the properties
Record(new_posts) ==
    LET ks == Urns(new_posts)
        seen2 == seen \o FirstShown(Range(seen), ks)
    IN  /\ extracts' = extracts + 1
        /\ seen' = seen2
        /\ chained' = (/\ chained
                       /\ prev_keys \subseteq Range(ks)
                       /\ Cardinality(Range(ks) \ prev_keys) <= 3)
        /\ prev_keys' = IF chained' THEN Range(ks) ELSE {}
        /\ reached_at' = IF reached_at = 0 /\ Len(seen2) >= count
                         THEN extracts + 1 ELSE reached_at
        /\ followed' = IF /\ followed = extracts
                          /\ extracts < Len(Scenario)
                          /\ ks = Scenario[extracts + 1]
                       THEN followed + 1 ELSE followed

----------------------------------------------------------------------------
\* Initial state: a fresh installation, no tool call running

Init ==
    /\ cookie_file = <<>>
    /\ key_file = <<>>
    /\ now = 0
    /\ ticks = 0
    /\ pc = "idle"
    /\ name = ""
    /\ count = 0
    /\ query = <<>>
    /\ target = <<>>
    /\ browser = "none"
    /\ playwright = "none"
    /\ exc = ""
    /\ last_load = <<>>
    /\ peers = [p \in Procs |-> Resting]
    /\ calls = [c \in Invocations |-> NotCalled]
    /\ contexts = <<>>
    /\ jar = <<>>
    /\ url = <<>>
    /\ posts = <<>>
    /\ scroll_attempt = 0
    /\ result = NoResult
    /\ loaded = FALSE
    /\ load_age = -1
    /\ redirected = FALSE
    /\ extracts = 0
    /\ scrolls = 0
    /\ saves = 0
    /\ seen = <<>>
    /\ prev_keys = {}
    /\ chained = TRUE
    /\ reached_at = 0
    /\ followed = 0

----------------------------------------------------------------------------
\* call_tool and the operations

\* call_tool with operations that open the session whatever the target is
CallUnchecked(tools, counts) ==
    /\ pc = "idle"
    /\ \E t \in tools :
         /\ name' = t
         /\ \E c \in (IF t \in {"view_linkedin_profile", "interact_with_linkedin_post",
                              "login_linkedin"}
                      THEN {0} ELSE counts \cup {DEFAULT_COUNT}) : count' = c
         /\ \E q \in (IF t \in {"search_linkedin_profiles", "search_linkedin_posts"}
                      THEN Queries ELSE {<<>>}) : query' = q
         /\ \E u \in (CASE t = "view_linkedin_profile" -> ProfileUrls
                        [] t = "interact_with_linkedin_post" -> PostUrls
                        [] OTHER -> {<<>>}) : target' = u
    /\ result' = NoResult
    /\ pc' = "enter"
    /\ UNCHANGED <<steady, page_state, collect_state, loaded, load_age,
                   saves, history>>

\* call_tool dispatches one tool; do_view_profile and do_interact_post reject a
\* target that is not a profile / post URL before any session is opened
Call(tools, counts) ==
    /\ pc = "idle"
    /\ \E t \in tools :
         /\ name' = t
         /\ \E c \in (IF t \in {"view_linkedin_profile", "interact_with_linkedin_post",
                              "login_linkedin"}
                      THEN {0} ELSE counts \cup {DEFAULT_COUNT}) : count' = c
         /\ \E q \in (IF t \in {"search_linkedin_profiles", "search_linkedin_posts"}
                      THEN Queries ELSE {<<>>}) : query' = q
         /\ \E u \in (CASE t = "view_linkedin_profile" -> ProfileUrls
                        [] t = "interact_with_linkedin_post" -> PostUrls
                        [] OTHER -> {<<>>}) :
              /\ target' = u
              /\ IF t = "view_linkedin_profile" /\ ~ValidProfileUrl(u)
                 THEN /\ result' = ErrorEnvelope("Invalid LinkedIn profile URL")
                      /\ pc' = "done"
                 ELSE IF t = "interact_with_linkedin_post" /\ ~ValidPostUrl(u)
                 THEN /\ result' = ErrorEnvelope("Invalid LinkedIn post URL")
                      /\ pc' = "done"
                 ELSE /\ result' = NoResult
                      /\ pc' = "enter"
    /\ UNCHANGED <<steady, page_state, collect_state, loaded, load_age,
                   saves, history>>

\* BrowserSession.__aenter__: launch, new context, load_cookies
Enter ==
    /\ pc = "enter"
    /\ playwright' = "running"
    /\ browser' = "open"
    /\ load_cookies
    /\ pc' = IF exc' # "" THEN "raise"
             ELSE IF name = "login_linkedin" THEN "login_nav" ELSE "nav"
    /\ UNCHANGED <<key_file, now, ticks, others, call_state, url, redirected, collect_state,
                   result, saves, history>>

\* the navigation going on to the extraction without the login test
NavigateUnchecked ==
    /\ pc = "nav"
    /\ \E r \in BOOLEAN :
         /\ redirected' = r
         /\ url' = IF r THEN LoginUrl ELSE RequestedUrl
    /\ \E j \in {jar} \cup CookieJars : jar' = j
    /\ pc' = IF name \in Collectors
             THEN (IF 0 < Budget(count) THEN "extract" ELSE "save")
             ELSE "extract_once"
    /\ UNCHANGED <<steady, call_state, browser, playwright, collect_state, result,
                   loaded, load_age, saves, history>>

\* session.new_page(url): the platform serves the page or redirects to the login
\* page, and may set or rotate cookies
Navigate ==
    /\ pc = "nav"
    /\ \E r \in BOOLEAN :
         /\ redirected' = r
         /\ url' = IF r THEN LoginUrl ELSE RequestedUrl
    /\ \E j \in {jar} \cup CookieJars : jar' = j
    /\ pc' = "check"
    /\ UNCHANGED <<steady, call_state, browser, playwright, collect_state, result,
                   loaded, load_age, saves, history>>

\* the check made by the collectors only
AuthCheckFeedOnly ==
    /\ pc = "check"
    /\ IF name \in Collectors /\ Contains(<<"login">>, url)
       THEN /\ result' = ErrorEnvelope("Not logged in")
            /\ pc' = "exit"
       ELSE /\ result' = result
            /\ pc' = IF name \in Collectors
                     THEN (IF 0 < Budget(count) THEN "extract" ELSE "save")
                     ELSE "extract_once"
    /\ UNCHANGED <<steady, call_state, page_state, collect_state,
                   loaded, load_age, saves, history>>

\* the check saving the cookies of the dead session before it returns
AuthCheckSaving ==
    /\ pc = "check"
    /\ IF Contains(<<"login">>, url)
       THEN /\ result' = ErrorEnvelope("Not logged in")
            /\ pc' = "exit"
            /\ \E k \in Keys : save_cookies(k)
       ELSE /\ result' = result
            /\ pc' = IF name \in Collectors
                     THEN (IF 0 < Budget(count) THEN "extract" ELSE "save")
                     ELSE "extract_once"
            /\ UNCHANGED <<vault, last_load, saves>>
    /\ UNCHANGED <<exc, now, ticks, others, call_state, page_state, collect_state,
                   loaded, load_age, history>>

\* if 'login' in page.url: return the "Not logged in" envelope
AuthCheck ==
    /\ pc = "check"
    /\ IF Contains(<<"login">>, url)
       THEN /\ result' = ErrorEnvelope("Not logged in")
            /\ pc' = "exit"
       ELSE /\ result' = result
            /\ pc' = IF name \in Collectors
                     THEN (IF 0 < Budget(count) THEN "extract" ELSE "save")
                     ELSE "extract_once"
    /\ UNCHANGED <<steady, call_state, page_state, collect_state,
                   loaded, load_age, saves, history>>

\* the iteration with its break taken only once the target is exceeded
ExtractLate(batches) ==
    /\ pc = "extract"
    /\ \E new_posts \in batches :
         /\ posts' = AppendNew(posts, new_posts)
         /\ Record(new_posts)
    /\ pc' = IF Len(posts') > count THEN "save" ELSE "scroll"
    /\ UNCHANGED <<steady, call_state, page_state, scroll_attempt, result,
                   loaded, load_age, saves, scrolls>>

\* the iteration scrolling before it tests the target
ExtractScrollFirst(batches) ==
    /\ pc = "extract"
    /\ \E new_posts \in batches :
         /\ posts' = AppendNew(posts, new_posts)
         /\ Record(new_posts)
    /\ pc' = IF Len(posts') >= count THEN "save" ELSE "scroll"
    /\ scrolls' = IF Len(posts') >= count THEN scrolls + 1 ELSE scrolls
    /\ UNCHANGED <<steady, call_state, page_state, scroll_attempt, result,
                   loaded, load_age, saves>>

\* one iteration of the collect loop up to its break
Extract(batches) ==
    /\ pc = "extract"
    /\ \E new_posts \in batches :
         /\ posts' = AppendNew(posts, new_posts)
         /\ Record(new_posts)
    /\ pc' = IF Len(posts') >= count THEN "save" ELSE "scroll"
    /\ UNCHANGED <<steady, call_state, page_state, scroll_attempt, result,
                   loaded, load_age, saves, scrolls>>

\* window.scrollBy, the settle pause, and the loop's next index
Scroll ==
    /\ pc = "scroll"
    /\ scrolls' = scrolls + 1
    /\ scroll_attempt' = scroll_attempt + 1
    /\ pc' = IF scroll_attempt + 1 < Budget(count) THEN "extract" ELSE "save"
    /\ UNCHANGED <<steady, call_state, page_state, posts, result,
                   loaded, load_age, saves, extracts, seen, prev_keys, chained,
                   reached_at, followed>>

\* the single page.evaluate of search-profiles, view-profile and interact-post
ExtractOnce(batches) ==
    /\ pc = "extract_once"
    /\ \E found \in batches :
         /\ posts' = IF name = "search_linkedin_profiles"
                     THEN TakeProfiles(<<>>, found, count)
                     ELSE found
         /\ Record(found)
    /\ pc' = "save"
    /\ UNCHANGED <<steady, call_state, page_state, scroll_attempt, result,
                   loaded, load_age, saves, scrolls>>

\* the return reporting a short collection as an error
SaveStrict ==
    /\ pc = "save"
    /\ \E k \in Keys : save_cookies(k)
    /\ result' = IF name \in Collectors
                 THEN (IF Len(posts) < count
                       THEN ErrorEnvelope("Not enough posts")
                       ELSE SuccessEnvelope(Slice(posts, count), Len(posts)))
                 ELSE SuccessEnvelope(posts, Len(posts))
    /\ pc' = "exit"
    /\ UNCHANGED <<exc, now, ticks, others, call_state, page_state, collect_state, loaded,
                   load_age, history>>

\* save_cookies, then the success envelope
Save ==
    /\ pc = "save"
    /\ \E k \in Keys : save_cookies(k)
    /\ result' = IF name \in Collectors
                 THEN SuccessEnvelope(Slice(posts, count), Len(posts))
                 ELSE SuccessEnvelope(posts, Len(posts))
    /\ pc' = "exit"
    /\ UNCHANGED <<exc, now, ticks, others, call_state, page_state, collect_state, loaded,
                   load_age, history>>

\* do_login: page.goto(login page); with a live session the platform answers
\* with the feed, and `'feed' in page.url` skips the form
LoginNavigate ==
    /\ pc = "login_nav"
    /\ \E u \in {LoginUrl, FeedUrl} : url' = u
    /\ \E j \in {jar} \cup CookieJars : jar' = j
    /\ pc' = IF Contains(<<"feed">>, url') THEN "login_save" ELSE "login_wait"
    /\ UNCHANGED <<steady, call_state, browser, playwright, redirected, collect_state,
                   result, loaded, load_age, saves, history>>

\* the form is filled; wait_for_url('**/feed/**') returns when the user has
\* logged in, or raises after 300 s into the bare except
LoginWait ==
    /\ pc = "login_wait"
    /\ \/ /\ url' = FeedUrl
          /\ \E j \in CookieJars : jar' = j
          /\ result' = result
          /\ pc' = "login_try_save"
       \/ /\ result' = ErrorEnvelope("Login timeout")
          /\ pc' = "exit"
          /\ UNCHANGED <<url, jar>>
    /\ UNCHANGED <<steady, call_state, browser, playwright, redirected, collect_state,
                   loaded, load_age, saves, history>>

\* save_cookies; on the 'feed' path "Already logged in" is returned at once,
\* inside the try the settle pause comes first
LoginSave ==
    /\ pc \in {"login_save", "login_try_save"}
    /\ \E k \in Keys : save_cookies(k)
    /\ IF pc = "login_save"
       THEN /\ result' = MessageEnvelope("Already logged in")
            /\ pc' = "exit"
       ELSE /\ result' = result
            /\ pc' = "login_sleep"
    /\ UNCHANGED <<exc, now, ticks, others, call_state, page_state, collect_state, loaded,
                   load_age, history>>

\* await asyncio.sleep(2), then "Login successful" (the clock of the model
\* moves between calls only)
LoginSleep ==
    /\ pc = "login_sleep"
    /\ result' = MessageEnvelope("Login successful")
    /\ pc' = "exit"
    /\ UNCHANGED <<steady, call_state, page_state, collect_state, loaded, load_age,
                   saves, history>>

\* BrowserSession.__aexit__
Exit ==
    /\ pc = "exit"
    /\ browser' = "closed"
    /\ playwright' = "stopped"
    /\ pc' = IF exc # "" THEN "raise" ELSE "done"
    /\ UNCHANGED <<steady, call_state, jar, url, redirected, collect_state,
                   result, loaded, load_age, saves, history>>

\* call_tool hands the envelope to the dispatcher; the call's locals are gone
Return ==
    /\ pc = "done"
    /\ pc' = "idle"
    /\ name' = "" /\ count' = 0 /\ query' = <<>> /\ target' = <<>>
    /\ browser' = "none" /\ playwright' = "none"
    /\ jar' = <<>> /\ url' = <<>> /\ redirected' = FALSE
    /\ posts' = <<>> /\ scroll_attempt' = 0
    /\ result' = NoResult
    /\ loaded' = FALSE /\ load_age' = -1
    /\ extracts' = 0 /\ scrolls' = 0 /\ saves' = 0
    /\ seen' = <<>> /\ prev_keys' = {} /\ chained' = TRUE
    /\ reached_at' = 0 /\ followed' = 0
    /\ exc' = ""
    /\ UNCHANGED <<vault, last_load, now, ticks, others>>

\* time passes between tool calls
Tick ==
    /\ pc = "idle"
    /\ ticks < MaxTicks
    /\ \E d \in {1, TTL - 1} : now' = now + d
    /\ ticks' = ticks + 1
    /\ UNCHANGED <<vault, last_load, exc, others, pc, call_state, page_state, collect_state, result,
                   loaded, load_age, saves, history>>

----------------------------------------------------------------------------
\* debug_selectors.py main()

DebugLoad ==
    /\ pc = "idle"
    /\ name' = "debug_selectors"
    /\ playwright' = "running"
    /\ browser' = "open"
    /\ debug_load_cookies
    /\ pc' = "debug_nav"
    /\ UNCHANGED <<steady, count, query, target, url, redirected,
                   collect_state, result, saves, history>>

\* page.goto(feed); on a login page, wait for the manual login
DebugNavigate ==
    /\ pc = "debug_nav"
    /\ \E r \in BOOLEAN :
         /\ redirected' = r
         /\ url' = FeedUrl
         /\ jar' \in (IF r THEN CookieJars ELSE {jar} \cup CookieJars)
    /\ pc' = "debug_dump"
    /\ UNCHANGED <<steady, call_state, browser, playwright, collect_state, result,
                   loaded, load_age, saves, history>>

\* the HTML dump, the selector report, browser.close()
DebugDump ==
    /\ pc = "debug_dump"
    /\ browser' = "closed"
    /\ playwright' = "stopped"
    /\ pc' = "done"
    /\ UNCHANGED <<steady, call_state, jar, url, redirected, collect_state,
                   result, loaded, load_age, saves, history>>

----------------------------------------------------------------------------
\* Failures: a browser or file-system call raises, the store is damaged
\* between calls, and call_tool's except turns what propagates into an envelope

\* str(e) of what save_cookies can raise, by the statement that raises
SaveError ==
    [cookies |-> "Target page, context or browser has been closed",
     key     |-> "No space left on device: encryption.key",
     fernet  |-> "Fernet key must be 32 url-safe base64-encoded bytes.",
     open    |-> "Permission denied: linkedin_cookies.json",
     write   |-> "No space left on device: linkedin_cookies.json"]

SaveErrors == {SaveError[at] : at \in DOMAIN SaveError}

\* save_cookies raising at statement `at`: the statements before it have run.
\* The key file is written only when it does not exist; Fernet(key) raises on a
\* key file that holds no key; open(cookie_file, 'wb') has emptied the bundle
\* file when the write after it fails.
save_cookies_fails(new_key, at) ==
    LET have == key_file # <<>>
        key == IF have THEN key_file[1] ELSE new_key
    IN  /\ at = "key" => ~have
        /\ at = "fernet" => ~ValidKey(key)
        /\ at \in {"open", "write"} => ValidKey(key)
        /\ key_file' = IF at = "cookies" THEN key_file
                       ELSE IF at = "key" THEN <<TornKey>>
                       ELSE <<key>>
        /\ cookie_file' = IF at = "write" THEN <<Torn>> ELSE cookie_file
        /\ last_load' = IF at = "write" THEN <<>> ELSE last_load
        /\ UNCHANGED saves

\* __aenter__ raising: async_playwright().start(), chromium.launch() or
\* new_context(); `async with` does not run __aexit__ then
EnterFails ==
    /\ pc = "enter"
    /\ \E at \in {"start", "launch", "new_context"} :
         /\ playwright' = IF at = "start" THEN "none" ELSE "running"
         /\ browser' = IF at = "new_context" THEN "open" ELSE "none"
         /\ exc' = CASE at = "start" -> "Driver not found"
                     [] at = "launch" -> "Executable doesn't exist"
                     [] OTHER -> "Failed to create browser context"
    /\ pc' = "raise"
    /\ UNCHANGED <<vault, last_load, now, ticks, others, call_state, jar, url, redirected,
                   collect_state, result, loaded, load_age, saves, history>>

\* new_page / page.goto raising inside the `async with` body
NavigateFails ==
    /\ pc \in {"nav", "login_nav"}
    /\ exc' = "Timeout 60000ms exceeded"
    /\ pc' = "exit"
    /\ UNCHANGED <<vault, last_load, now, ticks, others, call_state, page_state, collect_state,
                   result, loaded, load_age, saves, history>>

\* page.evaluate raising in the collect loop or in the single extraction
ExtractFails ==
    /\ pc \in {"extract", "scroll", "extract_once"}
    /\ exc' = "Execution context was destroyed"
    /\ pc' = "exit"
    /\ UNCHANGED <<vault, last_load, now, ticks, others, call_state, page_state, collect_state,
                   result, loaded, load_age, saves, history>>

\* save_cookies raising in one of the five operations or on do_login's
\* "Already logged in" path: nothing catches it inside the operation
SaveFails ==
    /\ pc \in {"save", "login_save"}
    /\ \E k \in Keys, at \in DOMAIN SaveError :
         /\ save_cookies_fails(k, at)
         /\ exc' = SaveError[at]
    /\ pc' = "exit"
    /\ UNCHANGED <<now, ticks, others, call_state, page_state, collect_state, result,
                   loaded, load_age, history>>

\* save_cookies raising inside do_login's try: the bare except answers
LoginSaveFails ==
    /\ pc = "login_try_save"
    /\ \E k \in Keys, at \in DOMAIN SaveError :
         /\ save_cookies_fails(k, at)
    /\ exc' = exc
    /\ result' = ErrorEnvelope("Login timeout")
    /\ pc' = "exit"
    /\ UNCHANGED <<now, ticks, others, call_state, page_state, collect_state,
                   loaded, load_age, history>>

\* the call is cancelled while it sleeps: asyncio.sleep raises CancelledError
\* inside do_login's try, and the bare except answers
LoginSleepInterrupted ==
    /\ pc = "login_sleep"
    /\ result' = ErrorEnvelope("Login timeout")
    /\ pc' = "exit"
    /\ UNCHANGED <<steady, call_state, page_state, collect_state, loaded, load_age,
                   saves, history>>

\* __aexit__ raising at browser.close(): playwright.stop() is not reached
ExitFails ==
    /\ pc = "exit"
    /\ \E b \in {"open", "closed"} : browser' = b
    /\ exc' = "Connection closed while closing the browser"
    /\ pc' = "raise"
    /\ UNCHANGED <<vault, last_load, now, ticks, others, call_state, playwright, jar, url,
                   redirected, collect_state, result, loaded, load_age, saves, history>>

\* call_tool invoked without the argument its branch subscripts: KeyError
CallMissingArgument ==
    /\ pc = "idle"
    /\ \E t \in Operations \ {"browse_linkedin_feed", "login_linkedin"} :
         /\ name' = t
         /\ exc' = CASE t \in {"search_linkedin_profiles", "search_linkedin_posts"} -> "'query'"
                     [] t = "view_linkedin_profile" -> "'profile_url'"
                     [] OTHER -> "'post_url'"
    /\ pc' = "raise"
    /\ UNCHANGED <<vault, last_load, now, ticks, others, count, query, target, page_state,
                   collect_state, result, loaded, load_age, saves, history>>

\* call_tool without its handler: the exception leaves call_tool
Reraise ==
    /\ pc = "raise"
    /\ pc' = "done"
    /\ UNCHANGED <<steady, call_state, page_state, collect_state, result, loaded,
                   load_age, saves, history>>

\* call_tool: except Exception as e -> {"status": "error", "message": str(e)}
Catch ==
    /\ pc = "raise"
    /\ result' = ErrorEnvelope(exc)
    /\ pc' = "done"
    /\ UNCHANGED <<steady, call_state, page_state, collect_state, loaded, load_age,
                   saves, history>>

\* between calls something else damages the store: the key file is lost or
\* overwritten, the bundle file is truncated, replaced or removed
Tamper ==
    /\ pc = "idle"
    /\ \/ key_file # <<>> /\ key_file' = <<>> /\ UNCHANGED cookie_file
       \/ key_file' = <<TornKey>> /\ UNCHANGED cookie_file
       \/ cookie_file # <<>> /\ cookie_file' = <<Torn>> /\ UNCHANGED key_file
       \/ cookie_file # <<>> /\ cookie_file' = <<>> /\ UNCHANGED key_file
       \/ /\ key_file # <<>> /\ ValidKey(key_file[1])
          /\ cookie_file' = <<Encrypt(key_file[1], NotJson)>>
          /\ UNCHANGED key_file
    /\ last_load' = <<>>
    /\ UNCHANGED <<exc, now, ticks, others, pc, call_state, page_state, collect_state, result,
                   loaded, load_age, saves, history>>

----------------------------------------------------------------------------
\* save_cookies and load_cookies statement by statement, as run by processes
\* that share the sessions directory (two servers, or a server and the script)

Peer(p) == peers[p]

PeerAt(p, at) == peers' = [peers EXCEPT ![p].at = at]

\* save_cookies: cookies(), cookie_data with int(time.time())
PeerSaveBegin(p) ==
    /\ Peer(p).at = "idle"
    /\ peers' = [peers EXCEPT ![p] = [Resting EXCEPT
                    !.at = "save_key",
                    !.cookie_data = <<[timestamp |-> now, cookies |-> PeerJar[p]]>>]]
    /\ UNCHANGED <<vault, now, ticks, tool_call, dispatched>>

\* if key_file.exists(): read it; else: key = Fernet.generate_key()
PeerSaveKey(p) ==
    /\ Peer(p).at = "save_key"
    /\ IF key_file # <<>>
       THEN peers' = [peers EXCEPT ![p].key = key_file[1], ![p].at = "save_open"]
       ELSE \E k \in Keys :
              peers' = [peers EXCEPT ![p].key = k, ![p].at = "save_key_open"]
    /\ UNCHANGED <<vault, now, ticks, tool_call, dispatched>>

\* open(key_file, 'wb'), whatever the file holds by now
PeerSaveKeyOpen(p) ==
    /\ Peer(p).at = "save_key_open"
    /\ key_file' = <<TornKey>>
    /\ PeerAt(p, "save_key_write")
    /\ UNCHANGED <<cookie_file, now, ticks, tool_call, dispatched>>

\* f.write(key)
PeerSaveKeyWrite(p) ==
    /\ Peer(p).at = "save_key_write"
    /\ key_file' = <<Peer(p).key>>
    /\ PeerAt(p, "save_open")
    /\ UNCHANGED <<cookie_file, now, ticks, tool_call, dispatched>>

\* Fernet(key), encrypt, open(cookie_file, 'wb'); Fernet raises on a torn key
PeerSaveOpen(p) ==
    /\ Peer(p).at = "save_open"
    /\ IF ValidKey(Peer(p).key)
       THEN /\ cookie_file' = <<Torn>>
            /\ PeerAt(p, "save_write")
       ELSE /\ peers' = [peers EXCEPT ![p].out = "raised", ![p].at = "done"]
            /\ UNCHANGED cookie_file
    /\ UNCHANGED <<key_file, now, ticks, tool_call, dispatched>>

\* f.write(encrypted)
PeerSaveWrite(p) ==
    /\ Peer(p).at = "save_write"
    /\ cookie_file' = <<Encrypt(Peer(p).key, Peer(p).cookie_data[1])>>
    /\ peers' = [peers EXCEPT ![p].out = "saved", ![p].at = "done"]
    /\ UNCHANGED <<key_file, now, ticks, tool_call, dispatched>>

\* load_cookies: the existence test
PeerLoadBegin(p) ==
    /\ Peer(p).at = "idle"
    /\ peers' = [peers EXCEPT ![p] =
                    IF cookie_file = <<>> \/ key_file = <<>>
                    THEN [Resting EXCEPT !.out = "absent", !.at = "done"]
                    ELSE [Resting EXCEPT !.at = "load_key"]]
    /\ UNCHANGED <<vault, now, ticks, tool_call, dispatched>>

\* with open(key_file, 'rb') as f: key = f.read()
PeerLoadKey(p) ==
    /\ Peer(p).at = "load_key"
    /\ peers' = [peers EXCEPT ![p].key = key_file[1], ![p].at = "load_read"]
    /\ UNCHANGED <<vault, now, ticks, tool_call, dispatched>>

\* with open(cookie_file, 'rb') as f: encrypted = f.read(); a file unlinked
\* since the existence test raises into the except
PeerLoadRead(p) ==
    /\ Peer(p).at = "load_read"
    /\ peers' = IF cookie_file = <<>>
                THEN [peers EXCEPT ![p].out = "absent", ![p].at = "done"]
                ELSE [peers EXCEPT ![p].encrypted = cookie_file, ![p].at = "load_decrypt"]
    /\ UNCHANGED <<vault, now, ticks, tool_call, dispatched>>

\* Fernet(key), decrypt, json.loads, the expiry test, add_cookies
PeerLoadDecrypt(p) ==
    /\ Peer(p).at = "load_decrypt"
    /\ peers' =
         IF ~Loadable(Peer(p).encrypted, <<Peer(p).key>>)
         THEN [peers EXCEPT ![p].out = "absent", ![p].at = "done"]
         ELSE LET cookie_data == Peer(p).encrypted[1].plain
              IN  IF now - cookie_data.timestamp > TTL
                  THEN [peers EXCEPT ![p].cookie_data = <<cookie_data>>,
                                     ![p].at = "load_unlink"]
                  ELSE [peers EXCEPT ![p].cookie_data = <<cookie_data>>,
                                     ![p].out = "applied", ![p].at = "done"]
    /\ UNCHANGED <<vault, now, ticks, tool_call, dispatched>>

\* cookie_file.unlink(); return False
PeerLoadUnlink(p) ==
    /\ Peer(p).at = "load_unlink"
    /\ cookie_file' = <<>>
    /\ peers' = [peers EXCEPT ![p].out = "absent", ![p].at = "done"]
    /\ UNCHANGED <<key_file, now, ticks, tool_call, dispatched>>

\* the function has returned; its locals are gone
PeerReturn(p) ==
    /\ Peer(p).at = "done"
    /\ peers' = [peers EXCEPT ![p] = Resting]
    /\ UNCHANGED <<vault, now, ticks, tool_call, dispatched>>

----------------------------------------------------------------------------
\* Tool calls dispatched concurrently in one event loop.  Each do_* body is
\* `async with BrowserSession(...) as session`, a local of that call; between
\* two awaits a call runs alone, so the file statements of load_cookies and
\* save_cookies are one step here.

Invocation(c) == calls[c]

\* call_tool enters a do_* coroutine
Dispatch(c) ==
    /\ Invocation(c).at = "idle"
    /\ Len(contexts) < MaxSessions
    /\ calls' = [calls EXCEPT ![c].at = "enter"]
    /\ UNCHANGED <<contexts, vault, now, ticks, peers, tool_call>>

\* __aenter__ handing out the context another call has open, if there is one
SessionEnterShared(c) ==
    /\ Invocation(c).at = "enter"
    /\ IF \E s \in 1..Len(contexts) : contexts[s].state = "open"
       THEN LET s == CHOOSE s \in 1..Len(contexts) : contexts[s].state = "open"
            IN  /\ contexts' = [contexts EXCEPT ![s].users = @ \cup {c}]
                /\ calls' = [calls EXCEPT ![c].session = s, ![c].at = "use"]
       ELSE /\ contexts' = Append(contexts, [owner |-> c, users |-> {c}, state |-> "open"])
            /\ calls' = [calls EXCEPT ![c].session = Len(contexts) + 1, ![c].at = "use"]
    /\ UNCHANGED <<vault, now, ticks, peers, tool_call>>

\* BrowserSession() and __aenter__: a browser and a context of its own, then
\* load_cookies into that context
SessionEnter(c) ==
    /\ Invocation(c).at = "enter"
    /\ contexts' = Append(contexts, [owner |-> c, users |-> {c}, state |-> "open"])
    /\ calls' = [calls EXCEPT
                    ![c].session = Len(contexts) + 1,
                    ![c].cookies = IF Loadable(cookie_file, key_file)
                                   THEN cookie_file[1].plain.cookies ELSE <<>>,
                    ![c].at = "use"]
    /\ UNCHANGED <<vault, now, ticks, peers, tool_call>>

\* session.new_page, goto, evaluate: the call works on the context of its own
\* session object; the platform sets its cookies; a login redirect ends the call
SessionUse(c) ==
    /\ Invocation(c).at = "use"
    /\ contexts' = [contexts EXCEPT ![Invocation(c).session].users = @ \cup {c}]
    /\ \E logged_in \in BOOLEAN :
         calls' = [calls EXCEPT
                      ![c].cookies = IF logged_in THEN CallJar[c] ELSE @,
                      ![c].at = IF logged_in THEN "save" ELSE "exit"]
    /\ UNCHANGED <<vault, now, ticks, peers, tool_call>>

\* save_cookies(page, 'linkedin') with the cookies of the call's own context
SessionSave(c) ==
    /\ Invocation(c).at = "save"
    /\ \E k \in Keys :
         LET key == IF key_file # <<>> THEN key_file[1] ELSE k
         IN  /\ key_file' = <<key>>
             /\ cookie_file' = <<Encrypt(key, [timestamp |-> now,
                                               cookies |-> Invocation(c).cookies])>>
    /\ calls' = [calls EXCEPT ![c].at = "exit"]
    /\ UNCHANGED <<contexts, now, ticks, peers, tool_call>>

\* __aexit__: self.browser.close(), self.playwright.stop()
SessionExit(c) ==
    /\ Invocation(c).at = "exit"
    /\ contexts' = [contexts EXCEPT ![Invocation(c).session].state = "closed"]
    /\ calls' = [calls EXCEPT ![c].at = "done"]
    /\ UNCHANGED <<vault, now, ticks, peers, tool_call>>

\* the envelope is returned; the session object is garbage
CallReturn(c) ==
    /\ Invocation(c).at = "done"
    /\ calls' = [calls EXCEPT ![c] = NotCalled]
    /\ UNCHANGED <<contexts, vault, now, ticks, peers, tool_call>>

----------------------------------------------------------------------------
\* Specifications

\* every tool and the debug script, with time passing between calls
CallTool == Call(Operations, SessionCounts)

ExtractBatch == Extract(SessionBatches)

ExtractPage == ExtractOnce(SessionBatches)

Next ==
    \/ CallTool
    \/ Enter
    \/ Navigate
    \/ AuthCheck
    \/ ExtractBatch
    \/ Scroll
    \/ ExtractPage
    \/ Save
    \/ LoginNavigate
    \/ LoginWait
    \/ LoginSave
    \/ LoginSleep
    \/ Exit
    \/ Return
    \/ Tick
    \/ DebugLoad
    \/ DebugNavigate
    \/ DebugDump

Spec == Init /\ [][Next]_vars

\* the two collectors over every target count and the pages of BatchSet
CallCollector == Call(Collectors, Counts)

\* the page shows any batch of BatchSet, or goes on playing the Scenario
Rendered ==
    BatchSet \cup (IF followed = extracts /\ extracts < Len(Scenario)
                   THEN {ScenarioBatch(extracts + 1)} ELSE {})

ExtractFeed == Extract(Rendered)

NextCollect ==
    \/ CallCollector
    \/ Enter
    \/ Navigate
    \/ AuthCheck
    \/ ExtractFeed
    \/ Scroll
    \/ Save
    \/ Exit
    \/ Return

SpecCollect == Init /\ [][NextCollect]_vars

\* every tool with any of its browser and file-system calls failing, and the
\* store damaged between calls
NextFaults ==
    \/ CallTool
    \/ CallMissingArgument
    \/ Enter
    \/ EnterFails
    \/ Navigate
    \/ NavigateFails
    \/ AuthCheck
    \/ ExtractBatch
    \/ Scroll
    \/ ExtractPage
    \/ ExtractFails
    \/ Save
    \/ SaveFails
    \/ LoginNavigate
    \/ LoginWait
    \/ LoginSave
    \/ LoginSaveFails
    \/ LoginSleep
    \/ LoginSleepInterrupted
    \/ Exit
    \/ ExitFails
    \/ Catch
    \/ Return
    \/ Tamper

SpecFaults == Init /\ [][NextFaults]_vars

\* two processes saving and loading at any interleaving of their statements,
\* with time passing
NextVault ==
    \/ \E p \in Procs : PeerSaveBegin(p)
    \/ \E p \in Procs : PeerSaveKey(p)
    \/ \E p \in Procs : PeerSaveKeyOpen(p)
    \/ \E p \in Procs : PeerSaveKeyWrite(p)
    \/ \E p \in Procs : PeerSaveOpen(p)
    \/ \E p \in Procs : PeerSaveWrite(p)
    \/ \E p \in Procs : PeerLoadBegin(p)
    \/ \E p \in Procs : PeerLoadKey(p)
    \/ \E p \in Procs : PeerLoadRead(p)
    \/ \E p \in Procs : PeerLoadDecrypt(p)
    \/ \E p \in Procs : PeerLoadUnlink(p)
    \/ \E p \in Procs : PeerReturn(p)
    \/ Tick

SpecVault == Init /\ [][NextVault]_vars

\* two tool calls of one server running at once, up to MaxSessions sessions
NextDispatch ==
    \/ \E c \in Invocations : Dispatch(c)
    \/ \E c \in Invocations : SessionEnter(c)
    \/ \E c \in Invocations : SessionUse(c)
    \/ \E c \in Invocations : SessionSave(c)
    \/ \E c \in Invocations : SessionExit(c)
    \/ \E c \in Invocations : CallReturn(c)

SpecDispatch == Init /\ [][NextDispatch]_vars

----------------------------------------------------------------------------
\* Properties of the collectors (SpecCollect)

NoDuplicates(ks) == \A i, j \in 1..Len(ks) : i # j => ks[i] # ks[j]

Position(ks, k) == CHOOSE i \in 1..Len(ks) : ks[i] = k

Returned == name \in Collectors /\ result.status = "success"

\* C1: the items browse-feed and search-posts return have pairwise different urns
\* and stand in the order in which the page first showed their urns, whatever
\* batches the extraction returned.
UniqueFirstSeenOrder ==
    Returned =>
        LET ks == Urns(result.items)
        IN  /\ NoDuplicates(ks)
            /\ Range(ks) \subseteq Range(seen)
            /\ \A i, j \in 1..Len(ks) :
                 i < j => Position(seen, ks[i]) < Position(seen, ks[j])

UniqueFirstSeenOrderWitness ==
    /\ Returned /\ pc = "done"
    /\ followed >= 2
    /\ Len(result.items) = 5

\* C2: the collectors return at most target_count items (none for a negative
\* target_count), and exactly target_count when the first batch alone holds at
\* least target_count distinct urns.
TargetCeiling ==
    Returned =>
        /\ Len(result.items) <= Max(count, 0)
        /\ reached_at = 1 => Len(result.items) = Max(count, 0)

\* C3: once the distinct urns shown reach target_count (>= 0) no further batch is
\* extracted and the first target_count urns shown are returned in first-seen
\* order; browse_feed(count=5) over [a,b,c], [b,c,d,e] returns [a,b,c,d,e] after
\* two extractions and never extracts a third batch.
StopsAtTarget ==
    /\ (name \in Collectors /\ count >= 0 /\ reached_at > 0) =>
         /\ extracts = reached_at
         /\ pc \in {"save", "exit", "done"}
         /\ result.status = "success" =>
              Urns(result.items) = SubSeq(seen, 1, count)
    /\ (name = "browse_linkedin_feed" /\ count = 5 /\ followed >= 2) =>
         /\ extracts = 2
         /\ followed = 2
         /\ pc \in {"save", "exit", "done"}
         /\ result.status = "success" =>
              Urns(result.items) = <<"a", "b", "c", "d", "e">>

StopsAtTargetWitness ==
    /\ name = "browse_linkedin_feed" /\ count = 5 /\ followed = 2
    /\ pc = "done" /\ result.status = "success"

\* C4 as stated (already for a positive target_count): when every batch repeats
\* the urns of the batch before it and adds at most 3, the result is as long as the
\* number of distinct urns shown and is in first-seen order.
DedupConvergence ==
    (Returned /\ chained /\ count >= 1) =>
        /\ Len(result.items) = Cardinality(Range(seen))
        /\ Urns(result.items) = seen

\* C4 as amended: under the same batches, when target_count is at least the
\* number of distinct urns shown, the result is as long as that number and is in
\* first-seen order.
DedupConvergenceWithinTarget ==
    (Returned /\ chained /\ count >= Cardinality(Range(seen))) =>
        /\ Len(result.items) = Cardinality(Range(seen))
        /\ Urns(result.items) = seen

DedupConvergenceWitness ==
    /\ Returned /\ pc = "done" /\ chained
    /\ extracts >= 3
    /\ Len(seen) >= 3
    /\ count >= Len(seen)

\* C5: the collect loop performs at most min(target_count + 2, 10) extractions
\* (none when that number is negative), whatever the page shows.
AttemptBudget ==
    name \in Collectors =>
        /\ extracts <= Max(0, Min(count + 2, 10))
        /\ pc = "extract" => extracts < Min(count + 2, 10)

AttemptBudgetWitness ==
    /\ name \in Collectors /\ pc = "done"
    /\ extracts = 10
    /\ Len(seen) = 1

\* the loop ran through all its attempts and collected fewer than target_count
Exhausted ==
    /\ name \in Collectors
    /\ scroll_attempt = Min(count + 2, 10)
    /\ Len(posts) < count

\* C6: when the loop uses up its attempts with fewer than target_count items, the
\* operation returns a success envelope carrying exactly the items collected.
PartialSuccess ==
    (Exhausted /\ pc \in {"exit", "done"}) =>
        /\ result.status = "success"
        /\ result.items = posts
        /\ Urns(result.items) = seen
        /\ result.total_found = Len(seen)

PartialSuccessWitness ==
    /\ Exhausted /\ pc = "done"
    /\ Len(result.items) = 2

\* C25: in the collect loop each scroll follows the extraction of its iteration
\* and is issued only while the target has not been reached; a run that reached
\* the target has issued one scroll fewer than it made extractions, and a run
\* that used up its attempts has issued as many scrolls as extractions.
ScrollAfterExtract ==
    name \in Collectors =>
        /\ scrolls <= extracts /\ extracts <= scrolls + 1
        /\ pc = "extract" => extracts = scrolls
        /\ pc = "scroll" =>
             /\ extracts = scrolls + 1
             /\ reached_at = 0
             /\ Len(posts) < count
        /\ (pc = "save" \/ Returned) =>
             IF reached_at > 0
             THEN scrolls = extracts - 1
             ELSE /\ scrolls = extracts
                  /\ extracts = Max(0, Min(count + 2, 10))

ScrollAfterExtractWitness ==
    /\ Returned /\ pc = "done"
    /\ reached_at = 3 /\ extracts = 3 /\ scrolls = 2

\* the other kind of run is reached as well
ScrollAfterExtractExhausted ==
    /\ Returned /\ pc = "done"
    /\ reached_at = 0 /\ extracts = 4 /\ scrolls = 4

----------------------------------------------------------------------------
\* Properties of the session and the vault (Spec)

NotLoggedIn == result = ErrorEnvelope("Not logged in")

\* C7: in each of the five operations, when the navigation was redirected to the
\* login page the operation ends with the "Not logged in" error and the page
\* extraction is never called in that invocation.
AuthGate ==
    (name \in Tools /\ redirected /\ pc \notin {"idle", "enter", "nav", "check"}) =>
        /\ pc \in {"exit", "done"}
        /\ NotLoggedIn
        /\ extracts = 0
        /\ scrolls = 0

AuthGateWitness ==
    /\ name = "view_linkedin_profile"
    /\ redirected /\ loaded
    /\ pc = "done" /\ NotLoggedIn

\* C8: no step of an invocation that ends with the "Not logged in" error, from
\* its authentication check to its return, writes the bundle file or the key file.
NotAuthNeverSaves ==
    [][(pc \in {"check", "exit"} /\ result' = ErrorEnvelope("Not logged in")) =>
          /\ cookie_file' = cookie_file
          /\ key_file' = key_file
          /\ saves' = 0]_vars

NotAuthNeverSavesWitness ==
    /\ name \in Tools
    /\ pc = "done" /\ NotLoggedIn
    /\ loaded /\ cookie_file # <<>>
    /\ saves = 0

\* C9: right after load_cookies, a decrypted bundle of age TTL + 1 has not been
\* applied and its file is gone; one of age TTL - 1 has been applied and its file
\* is still in place.
ExpiryBoundary ==
    (name \in Tools /\ pc = "nav") =>
        /\ load_age = 86400 + 1 =>
             /\ ~loaded
             /\ jar = <<>>
             /\ cookie_file = <<>>
        /\ load_age = 86400 - 1 =>
             /\ loaded
             /\ cookie_file # <<>>
             /\ cookie_file[1].plain.timestamp = now - (86400 - 1)
             /\ jar = cookie_file[1].plain.cookies

ExpiryBoundaryWitness ==
    /\ name \in Tools /\ pc = "nav"
    /\ load_age = 86400 + 1
    /\ key_file # <<>>

\* the other side of the boundary is reached as well
ExpiryBoundaryFresh ==
    /\ name \in Tools /\ pc = "nav"
    /\ load_age = 86400 - 1

\* C10: wherever the repository reads the credential store, the cookies of a
\* bundle older than the TTL are not applied to a context, and right after the
\* read the file of such a bundle is gone.
NeverApplyExpired ==
    /\ loaded => load_age <= 86400
    /\ (pc \in {"nav", "debug_nav"} /\ load_age > 86400) => cookie_file = <<>>

\* C12: when load_cookies has applied a bundle and the bundle file was not
\* written since, the next load_cookies applies the same cookies if it applies
\* any, and with no time passed in between it does apply them and leaves the
\* file as it is.
LoadIdempotent ==
    [][(Enter /\ last_load # <<>>) =>
          /\ loaded' => jar' = last_load[1]
          /\ last_load[2] = ticks =>
                /\ loaded'
                /\ jar' = last_load[1]
                /\ cookie_file' = cookie_file]_vars

LoadIdempotentWitness ==
    /\ pc = "nav" /\ loaded
    /\ last_load # <<>> /\ last_load[3]
    /\ jar # <<>>

\* C17: whenever an operation holds a success envelope, save_cookies has run in
\* that invocation, the bundle file holds the cookies of its context stamped
\* with the time of the save, and this was done while the browser was still
\* open: right after the save the session is not yet closed.
SavedBeforeSuccess ==
    result.status = "success" =>
        /\ saves = 1
        /\ pc \in {"exit", "raise", "done"}
        /\ pc = "exit" => browser = "open"
        /\ Loadable(cookie_file, key_file)
        /\ cookie_file[1].plain = [timestamp |-> now, cookies |-> jar]

SavedBeforeSuccessWitness ==
    /\ name = "search_linkedin_profiles"
    /\ result.status = "success" /\ pc = "done"
    /\ now > 0 /\ jar # <<>>
    /\ browser = "closed"

\* the target handed to view-profile / interact-post fails the operation's test
Malformed ==
    /\ target # <<>>
    /\ \/ name = "view_linkedin_profile" /\ ~ValidProfileUrl(target)
       \/ name = "interact_with_linkedin_post" /\ ~ValidPostUrl(target)

InvalidTarget ==
    ErrorEnvelope(IF name = "view_linkedin_profile" THEN "Invalid LinkedIn profile URL"
                  ELSE "Invalid LinkedIn post URL")

\* C20: a view-profile or interact-post call whose target fails the URL test
\* returns the "Invalid LinkedIn ... URL" error at once: from the call to its
\* return no browser is launched, no page is navigated, load_cookies and
\* save_cookies do not run, and the bundle file and the key file stay as they are.
InvalidTargetImmediate ==
    [][(Malformed \/ Malformed') =>
          /\ pc' \in {"done", "idle"}
          /\ pc' = "done" => result' = InvalidTarget'
          /\ browser' = "none" /\ playwright' = "none"
          /\ url' = <<>> /\ jar' = <<>>
          /\ ~loaded' /\ load_age' = -1 /\ saves' = 0
          /\ UNCHANGED <<cookie_file, key_file, last_load>>]_vars

InvalidTargetImmediateWitness ==
    /\ Malformed /\ name = "interact_with_linkedin_post"
    /\ pc = "done" /\ result = InvalidTarget
    /\ Loadable(cookie_file, key_file)
    /\ browser = "none"

\* C23: search-profiles collects like browse-feed and search-posts: it stops
\* extracting only when it holds count distinct profiles or has made all
\* min(count + 2, 10) extractions, with a scroll after each extraction that left
\* it short.
ProfilesCollectedByScrolling ==
    (name = "search_linkedin_profiles" /\ (pc = "save" \/ result.status = "success")) =>
        \/ Len(posts) >= count
        \/ /\ extracts = Min(count + 2, 10)
           /\ scrolls = extracts

\* C24: within an invocation of an operation the steps come in the order
\* __aenter__ (with load_cookies), navigation, login test, extraction,
\* save_cookies, __aexit__: a page is navigated only in an open session and
\* before any extraction or save; an extraction runs only on a navigated page
\* that passed the login test and before the save; save_cookies runs in the open
\* session and no extraction follows it; after __aexit__ nothing but the return
\* happens; and a success envelope is returned only after all of them.
SessionOrder ==
    [][(name \in Operations /\ pc' # "idle") =>
          /\ url' # url =>
                /\ browser = "open" /\ browser' = "open"
                /\ extracts = 0 /\ saves = 0
          /\ extracts' # extracts =>
                /\ browser = "open" /\ browser' = "open"
                /\ url # <<>> /\ ~Contains(<<"login">>, url)
                /\ saves = 0
          /\ saves' # saves =>
                /\ browser = "open" /\ browser' = "open"
                /\ url # <<>> /\ ~Contains(<<"login">>, url)
                /\ pc' \notin {"extract", "scroll", "extract_once"}
          /\ saves > 0 => extracts' = extracts /\ url' = url
          /\ browser # "closed"
          /\ (result'.status = "success" /\ pc' = "done") =>
                /\ browser' = "closed" /\ playwright' = "stopped"
                /\ saves' = 1 /\ url' # <<>>]_vars

SessionOrderWitness ==
    /\ name = "browse_linkedin_feed"
    /\ pc = "done" /\ result.status = "success"
    /\ loaded /\ extracts >= 2 /\ scrolls >= 1
    /\ browser = "closed"

\* C26: an operation answers "Not logged in" only when its navigation was
\* redirected to the login page; a navigation that stays on the requested
\* address is never rejected, whatever query or address the caller supplied.
RejectedOnlyWhenRedirected ==
    (name \in Tools /\ NotLoggedIn) => redirected

----------------------------------------------------------------------------
\* Properties under failures (SpecFaults)

\* C11: whatever the store holds when a session is acquired (a file missing, a
\* key file that is no key, a bundle that does not verify, a plaintext that is
\* not the JSON object), load_cookies raises nothing, and when the store holds no
\* loadable bundle it applies no cookie, reports absent and leaves both files as
\* they are; __aenter__ then goes on to the navigation.
LoadTotal ==
    [][Enter =>
          /\ exc' = ""
          /\ pc' \in {"nav", "login_nav"}
          /\ browser' = "open"
          /\ ~Loadable(cookie_file, key_file) =>
                /\ ~loaded'
                /\ jar' = <<>>
                /\ cookie_file' = cookie_file
                /\ key_file' = key_file]_vars

LoadTotalWitness ==
    /\ pc = "nav" /\ exc = ""
    /\ ~loaded
    /\ key_file # <<>> /\ ValidKey(key_file[1])
    /\ cookie_file # <<>> /\ cookie_file[1].plain = NotJson

\* C13: a save_cookies call that raises part-way, made while the store holds a
\* loadable bundle, leaves the bundle file and the key file as they were, so
\* that the next load_cookies still finds that bundle.
FailedSaveKeepsBundle ==
    [][((SaveFails \/ LoginSaveFails) /\ Loadable(cookie_file, key_file)) =>
          /\ cookie_file' = cookie_file
          /\ key_file' = key_file
          /\ Loadable(cookie_file', key_file')]_vars

\* C15: when save_cookies fails after the extraction of one of the five
\* operations has succeeded, the operation still returns its success envelope
\* with the items extracted.
SaveNeverFailsCaller ==
    (name \in Tools /\ pc = "done" /\ exc \in SaveErrors) =>
        /\ result.status = "success"
        /\ result.items = (IF name \in Collectors THEN Slice(posts, count) ELSE posts)

\* C16: when call_tool returns, on whatever path (success, "Not logged in", an
\* exception in the navigation or the extraction, a failure inside __aenter__ or
\* __aexit__), the browser the call launched is no longer open.
SessionReleased ==
    pc = "done" => browser # "open"

\* the first half of C18: when the wait for the feed URL runs out, do_login
\* leaves with the "Login timeout" error and the store as it was
LoginWaitTimesOut ==
    [][(LoginWait /\ url' # FeedUrl) =>
          /\ result' = ErrorEnvelope("Login timeout")
          /\ pc' = "exit"
          /\ UNCHANGED <<cookie_file, key_file, saves>>]_vars

\* C18: in every invocation of do_login that returns the "Login timeout" error,
\* be it after the wait for the feed URL ran out or otherwise, save_cookies has
\* stored no bundle.
LoginTimeoutPersistsNothing ==
    (name = "login_linkedin" /\ result = ErrorEnvelope("Login timeout")) =>
        saves = 0

\* C29: do_login answers "Login timeout" only when the change to the feed URL
\* was not seen within the wait; once the page is on the feed URL a later
\* failure, such as one inside save_cookies, is not answered as a timeout.
TimeoutOnlyWhenNotObserved ==
    (name = "login_linkedin" /\ result = ErrorEnvelope("Login timeout")) =>
        ~Contains(<<"feed">>, url)

\* C19: when call_tool returns from one of the six operations its result is an
\* envelope with status "success" or "error", and when an exception was raised
\* in the invocation and left the operation (in __aenter__, the navigation, the
\* extraction, save_cookies, __aexit__, or the lookup of a missing argument), the
\* result is the error envelope carrying str(e).
ErrorsBecomeEnvelopes ==
    (pc = "done" /\ name \in Operations) =>
        /\ result.status \in {"success", "error"}
        /\ exc # "" => result = ErrorEnvelope(exc)

ErrorsBecomeEnvelopesWitness ==
    /\ pc = "done" /\ name \in Operations
    /\ exc = "Timeout 60000ms exceeded"
    /\ result = ErrorEnvelope(exc)
    /\ browser = "closed"

----------------------------------------------------------------------------
\* Properties of concurrent processes on the store (SpecVault)

\* C14: what a load_cookies reads from the bundle file while another process is
\* inside save_cookies is a complete bundle as some save wrote it, never the
\* file between its open and its write.
LoadSeesWholeBundle ==
    \A p \in Procs :
        Peer(p).encrypted # <<>> =>
            /\ Peer(p).encrypted # <<Torn>>
            /\ Parsable(Peer(p).encrypted[1].plain)

\* C21: under any interleaving of save_cookies and load_cookies calls, once the
\* key file holds a key no step changes its content.
KeyNeverRotated ==
    [][(key_file # <<>> /\ ValidKey(key_file[1])) => key_file' = key_file]_vars

\* C27: when the save_cookies calls of all processes have completed, however
\* their statements interleaved and whether or not the key file existed before,
\* the bundle file decrypts under the key file and holds the bundle of one of
\* those calls.
SavesLeaveLoadableBundle ==
    (\A p \in Procs : Peer(p).at = "done" /\ Peer(p).out = "saved") =>
        /\ Loadable(cookie_file, key_file)
        /\ \E p \in Procs : cookie_file[1].plain = Peer(p).cookie_data[1]

\* C28: no step removes a bundle file whose timestamp is within the lifetime,
\* however a load_cookies interleaves with a save_cookies.
FreshBundleNeverDeleted ==
    [][(/\ cookie_file # <<>>
        /\ Parsable(cookie_file[1].plain)
        /\ now - cookie_file[1].plain.timestamp <= TTL) => cookie_file' # <<>>]_vars

----------------------------------------------------------------------------
\* Properties of concurrently dispatched tool calls (SpecDispatch)

\* C22: with tool calls running at once, each call inside its `async with`
\* holds a browser and context that it launched itself and that is open, no two
\* calls hold the same one, no context is ever used by a call other than the
\* one that launched it, a call that has left its `async with` has closed its
\* own, and no context stays open without a running call holding it.
OwnSessionEach ==
    /\ \A s \in 1..Len(contexts) :
         /\ contexts[s].users = {contexts[s].owner}
         /\ contexts[s].state = "open" =>
              \E c \in Invocations :
                  Invocation(c).session = s /\ Invocation(c).at \in {"use", "save", "exit"}
    /\ \A c \in Invocations :
         /\ Invocation(c).at \in {"use", "save", "exit"} =>
              /\ Invocation(c).session \in 1..Len(contexts)
              /\ contexts[Invocation(c).session].owner = c
              /\ contexts[Invocation(c).session].state = "open"
         /\ Invocation(c).at = "done" =>
              contexts[Invocation(c).session].state = "closed"
         /\ \A d \in Invocations \ {c} :
              Invocation(c).session # 0 => Invocation(c).session # Invocation(d).session

OwnSessionEachWitness ==
    /\ Invocation("c1").at = "save"
    /\ Invocation("c2").at = "use"
    /\ Invocation("c1").session # Invocation("c2").session
    /\ cookie_file # <<>>
    /\ Len(contexts) >= 2

====
